---------------------------- MODULE Spec2Model ----------------------------
(***************************************************************************)
(* Model of app/models.py: the SQLModel record types of the EIA dashboard, *)
(* their field declarations, what constructing and validating a record     *)
(* does with a request, and what the declared columns (primary key,        *)
(* NOT NULL, UNIQUE, FOREIGN KEY) let a session store.                     *)
(*                                                                         *)
(* A class declared "table=True" is a SQLModel table model: its __init__   *)
(* never raises a validation error (it sets the attributes it was given    *)
(* and the defaults); a class declared "table=False" is a plain pydantic   *)
(* model whose __init__ validates.  model_validate validates either kind.  *)
(*                                                                         *)
(* Two specifications: Spec draws one call (a class and its keyword        *)
(* arguments) and constructs or validates it; SpecStore saves records in   *)
(* the tables and assigns to fields of stored rows.                        *)
(***************************************************************************)
EXTENDS Integers, Sequences, FiniteSets, TLC

VARIABLES request, last, db, now

vars == <<request, last, db, now>>

(***************************************************************************)
(* Bounds of the model.                                                    *)
(***************************************************************************)
\* How far on either side of a declared bound the probed inputs reach.
Margin == 1
\* Rows a session stores in all tables together.
MaxRows == 3
\* Ticks of the clock (datetime.utcnow) a run of the store covers.
MaxTime == 3

(***************************************************************************)
(* Python values.  A str is its text and its length (long strings are      *)
(* named by a short text and carry their length); a Decimal is what        *)
(* Decimal.as_tuple() gives: the coefficient's digits and the exponent.    *)
(***************************************************************************)
Null == [k |-> "null"]
IntV(i) == [k |-> "int", i |-> i]
StrV(text, len) == [k |-> "str", text |-> text, len |-> len]
DecV(digits, exp) == [k |-> "dec", digits |-> digits, exp |-> exp]
DateV(d) == [k |-> "date", d |-> d]
TimeV(t) == [k |-> "datetime", t |-> t]
BoolV(b) == [k |-> "bool", b |-> b]
JsonV(j) == [k |-> "json", j |-> j]

\* Decimal("0"), the default of the balance and impact fields.
DecZero == DecV(<<0>>, 0)
\* Decimal("1.0"), the default of trend_factor and volatility_multiplier.
DecOnePointZero == DecV(<<1, 0>>, -1)

(***************************************************************************)
(* The enums (str, Enum): the member values.                               *)
(***************************************************************************)
DataSourceType == {"STEO", "PSM", "WEEKLY"}

ProductType ==
    {"CRUDE_OIL", "GASOLINE", "DISTILLATE", "RESIDUAL", "JET_FUEL", "PROPANE",
     "NATURAL_GAS"}

DispositionType ==
    {"PRODUCTION", "IMPORTS", "EXPORTS", "STOCK_CHANGE", "REFINERY_INPUT",
     "DEMAND"}

ScenarioType ==
    {"BASELINE", "HURRICANE", "SUPPLY_SHOCK", "DEMAND_SURGE", "REFINERY_OUTAGE"}

SeverityLevel == {"LOW", "MODERATE", "HIGH", "EXTREME"}

EnumNames ==
    {"DataSourceType", "ProductType", "DispositionType", "ScenarioType",
     "SeverityLevel"}

EnumValues(e) ==
    CASE e = "DataSourceType" -> DataSourceType
      [] e = "ProductType" -> ProductType
      [] e = "DispositionType" -> DispositionType
      [] e = "ScenarioType" -> ScenarioType
      [] e = "SeverityLevel" -> SeverityLevel

(***************************************************************************)
(* Field declarations.  FieldInfo(ty) is "name: ty" with nothing else; the *)
(* operators below add what the annotation and Field(...) add.  A bound, a *)
(* maximal length or a precision is a set: empty when not declared.        *)
(***************************************************************************)
FieldInfo(ty) ==
    [ty |-> ty, enum |-> "", optional |-> FALSE, required |-> TRUE,
     default |-> Null, default_factory |-> FALSE,
     ge |-> {}, le |-> {}, max_length |-> {},
     max_digits |-> {}, decimal_places |-> {},
     primary_key |-> FALSE, unique |-> FALSE, foreign_key |-> "",
     sa_column |-> FALSE]

TInt == FieldInfo("int")
TStr == FieldInfo("str")
TBool == FieldInfo("bool")
TDate == FieldInfo("date")
TDateTime == FieldInfo("datetime")
TList == FieldInfo("list")
TDict == FieldInfo("dict")
EnumOf(e) == [FieldInfo("enum") EXCEPT !.enum = e]
MaxLen(n) == [TStr EXCEPT !.max_length = {n}]
Dec(d, s) == [FieldInfo("decimal") EXCEPT !.max_digits = {d}, !.decimal_places = {s}]
Ge(f, n) == [f EXCEPT !.ge = {n}]
Le(f, n) == [f EXCEPT !.le = {n}]
\* Optional[T]
Optional(f) == [f EXCEPT !.optional = TRUE]
\* Field(default=v)
Default(f, v) == [f EXCEPT !.required = FALSE, !.default = v]
\* Optional[T] = Field(default=None, ...)
OptNone(f) == Default(Optional(f), Null)
\* Field(default_factory=datetime.utcnow)
UtcNow == [TDateTime EXCEPT !.required = FALSE, !.default_factory = TRUE]
\* Optional[int] = Field(default=None, primary_key=True)
PrimaryKey == [OptNone(TInt) EXCEPT !.primary_key = TRUE]
\* unique=True left out of the column.
Unique_Dropped(f) == f
Unique(f) == [f EXCEPT !.unique = TRUE]
ForeignKey(f, t) == [f EXCEPT !.foreign_key = t]
\* Field(default=..., sa_column=Column(JSON))
SaJson(f) == [f EXCEPT !.sa_column = TRUE]

(***************************************************************************)
(* The record types: each class as field name |-> declaration, in          *)
(* declaration order of the source.  Relationship attributes are not       *)
(* fields (they hold no column and take no part in validation).            *)
(***************************************************************************)
D15_2 == Dec(15, 2)
D10_4 == Dec(10, 4)
D5_2 == Dec(5, 2)
D6_4 == Dec(6, 4)
D8_2 == Dec(8, 2)
D8_4 == Dec(8, 4)
D15_4 == Dec(15, 4)

EIADataPoint ==
    [id |-> PrimaryKey,
     series_id |-> MaxLen(100),
     data_source |-> EnumOf("DataSourceType"),
     product_type |-> EnumOf("ProductType"),
     disposition_type |-> EnumOf("DispositionType"),
     period_date |-> TDate,
     value |-> D15_2,
     unit |-> MaxLen(50),
     region |-> OptNone(MaxLen(100)),
     created_at |-> UtcNow,
     updated_at |-> UtcNow]

STEOData ==
    [id |-> PrimaryKey,
     series_id |-> MaxLen(100),
     product_type |-> EnumOf("ProductType"),
     forecast_period |-> TDate,
     forecast_value |-> D15_2,
     unit |-> MaxLen(50),
     confidence_interval_low |-> OptNone(D15_2),
     confidence_interval_high |-> OptNone(D15_2),
     created_at |-> UtcNow]

PSMData ==
    [id |-> PrimaryKey,
     series_id |-> MaxLen(100),
     product_type |-> EnumOf("ProductType"),
     disposition_type |-> EnumOf("DispositionType"),
     report_month |-> TDate,
     value |-> D15_2,
     unit |-> MaxLen(50),
     revision_flag |-> Default(TBool, BoolV(FALSE)),
     created_at |-> UtcNow]

WeeklyData ==
    [id |-> PrimaryKey,
     series_id |-> MaxLen(100),
     product_type |-> EnumOf("ProductType"),
     disposition_type |-> EnumOf("DispositionType"),
     week_ending |-> TDate,
     value |-> D15_2,
     unit |-> MaxLen(50),
     seasonal_adjustment |-> OptNone(MaxLen(50)),
     created_at |-> UtcNow]

SupplyDisposition ==
    [id |-> PrimaryKey,
     product_type |-> EnumOf("ProductType"),
     period_date |-> TDate,
     data_point_id |-> ForeignKey(OptNone(TInt), "EIADataPoint"),
     production |-> Default(D15_2, DecZero),
     imports |-> Default(D15_2, DecZero),
     stock_withdrawal |-> Default(D15_2, DecZero),
     exports |-> Default(D15_2, DecZero),
     refinery_input |-> Default(D15_2, DecZero),
     product_supplied |-> Default(D15_2, DecZero),
     stock_build |-> Default(D15_2, DecZero),
     unit |-> MaxLen(50),
     region |-> OptNone(MaxLen(100)),
     created_at |-> UtcNow]

Scenario ==
    [id |-> PrimaryKey,
     name |-> MaxLen(200),
     description |-> MaxLen(1000),
     scenario_type |-> EnumOf("ScenarioType"),
     severity_level |-> EnumOf("SeverityLevel"),
     start_date |-> TDate,
     end_date |-> TDate,
     hurricane_category |-> OptNone(Le(Ge(TInt, 1), 5)),
     affected_regions |-> SaJson(Default(TList, JsonV("list"))),
     production_impact_pct |-> Default(D5_2, DecZero),
     refining_capacity_impact_pct |-> Default(D5_2, DecZero),
     import_disruption_pct |-> Default(D5_2, DecZero),
     parameters |-> SaJson(Default(TDict, JsonV("dict"))),
     is_active |-> Default(TBool, BoolV(TRUE)),
     created_by |-> OptNone(MaxLen(100)),
     created_at |-> UtcNow]

\* ScenarioImpact with scenario_id declared Optional[int], default None.
ScenarioImpact_OptionalScenario ==
    [id |-> PrimaryKey,
     scenario_id |-> ForeignKey(OptNone(TInt), "Scenario"),
     product_type |-> EnumOf("ProductType"),
     disposition_type |-> EnumOf("DispositionType"),
     impact_date |-> TDate,
     baseline_value |-> D15_2,
     scenario_value |-> D15_2,
     impact_absolute |-> D15_2,
     impact_percentage |-> D5_2,
     unit |-> MaxLen(50),
     region |-> OptNone(MaxLen(100)),
     created_at |-> UtcNow]

ScenarioImpact ==
    [id |-> PrimaryKey,
     scenario_id |-> ForeignKey(TInt, "Scenario"),
     product_type |-> EnumOf("ProductType"),
     disposition_type |-> EnumOf("DispositionType"),
     impact_date |-> TDate,
     baseline_value |-> D15_2,
     scenario_value |-> D15_2,
     impact_absolute |-> D15_2,
     impact_percentage |-> D5_2,
     unit |-> MaxLen(50),
     region |-> OptNone(MaxLen(100)),
     created_at |-> UtcNow]

PriceData ==
    [id |-> PrimaryKey,
     product_type |-> EnumOf("ProductType"),
     price_date |-> TDate,
     price |-> D10_4,
     price_type |-> MaxLen(50),
     location |-> MaxLen(100),
     unit |-> MaxLen(50),
     volume |-> OptNone(D15_2),
     open_interest |-> OptNone(D15_2),
     volatility |-> OptNone(D8_4),
     created_at |-> UtcNow]

PriceForecast ==
    [id |-> PrimaryKey,
     scenario_id |-> ForeignKey(OptNone(TInt), "Scenario"),
     product_type |-> EnumOf("ProductType"),
     forecast_date |-> TDate,
     forecast_price |-> D10_4,
     baseline_price |-> D10_4,
     price_impact |-> D10_4,
     price_impact_pct |-> D5_2,
     confidence_level |-> OptNone(D5_2),
     price_type |-> MaxLen(50),
     location |-> MaxLen(100),
     unit |-> MaxLen(50),
     created_at |-> UtcNow]

SeasonalPattern ==
    [id |-> PrimaryKey,
     product_type |-> EnumOf("ProductType"),
     disposition_type |-> EnumOf("DispositionType"),
     month |-> Le(Ge(TInt, 1), 12),
     region |-> OptNone(MaxLen(100)),
     seasonal_index |-> D6_4,
     trend_factor |-> Default(D6_4, DecOnePointZero),
     volatility_multiplier |-> Default(D6_4, DecOnePointZero),
     years_of_data |-> Default(Ge(TInt, 1), IntV(10)),
     last_updated |-> UtcNow,
     created_at |-> UtcNow]

HurricaneHistorical ==
    [id |-> PrimaryKey,
     hurricane_name |-> MaxLen(100),
     year |-> Ge(TInt, 1950),
     category |-> Le(Ge(TInt, 1), 5),
     landfall_date |-> TDate,
     affected_regions |-> SaJson(Default(TList, JsonV("list"))),
     refinery_capacity_lost_pct |-> Default(D5_2, DecZero),
     production_disruption_days |-> Default(Ge(TInt, 0), IntV(0)),
     price_spike_gasoline_pct |-> Default(D8_2, DecZero),
     price_spike_crude_pct |-> Default(D8_2, DecZero),
     recovery_days_production |-> Default(Ge(TInt, 0), IntV(0)),
     recovery_days_refining |-> Default(Ge(TInt, 0), IntV(0)),
     notes |-> OptNone(MaxLen(1000)),
     created_at |-> UtcNow]

DashboardConfig ==
    [id |-> PrimaryKey,
     config_name |-> Unique(MaxLen(100)),
     dashboard_type |-> MaxLen(50),
     chart_configs |-> SaJson(Default(TDict, JsonV("dict"))),
     data_filters |-> SaJson(Default(TDict, JsonV("dict"))),
     refresh_interval_minutes |-> Default(Ge(TInt, 1), IntV(60)),
     default_date_range_days |-> Default(Ge(TInt, 1), IntV(365)),
     include_forecasts |-> Default(TBool, BoolV(TRUE)),
     include_scenarios |-> Default(TBool, BoolV(FALSE)),
     is_active |-> Default(TBool, BoolV(TRUE)),
     created_by |-> OptNone(MaxLen(100)),
     created_at |-> UtcNow,
     updated_at |-> UtcNow]

ReportTemplate ==
    [id |-> PrimaryKey,
     template_name |-> MaxLen(200),
     report_type |-> MaxLen(50),
     data_sources |-> SaJson(Default(TList, JsonV("list"))),
     products_included |-> SaJson(Default(TList, JsonV("list"))),
     regions_included |-> SaJson(Default(TList, JsonV("list"))),
     output_format |-> Default(MaxLen(20), StrV("PDF", 3)),
     chart_specifications |-> SaJson(Default(TDict, JsonV("dict"))),
     schedule_pattern |-> OptNone(MaxLen(100)),
     auto_send |-> Default(TBool, BoolV(FALSE)),
     recipients |-> SaJson(Default(TList, JsonV("list"))),
     is_active |-> Default(TBool, BoolV(TRUE)),
     created_by |-> OptNone(MaxLen(100)),
     created_at |-> UtcNow]

DataAlert ==
    [id |-> PrimaryKey,
     alert_name |-> MaxLen(200),
     alert_type |-> MaxLen(50),
     product_type |-> OptNone(EnumOf("ProductType")),
     threshold_value |-> OptNone(D15_4),
     threshold_operator |-> OptNone(MaxLen(10)),
     check_frequency_minutes |-> Default(Ge(TInt, 1), IntV(60)),
     cooldown_hours |-> Default(Ge(TInt, 1), IntV(24)),
     severity_level |-> Default(EnumOf("SeverityLevel"), StrV("MODERATE", 8)),
     is_active |-> Default(TBool, BoolV(TRUE)),
     last_triggered |-> OptNone(TDateTime),
     created_at |-> UtcNow]

\* The non-persistent schemas (table=False).
\* EIADataPointCreate with value declared to four decimal places.
EIADataPointCreate_FourPlaces ==
    [series_id |-> MaxLen(100),
     data_source |-> EnumOf("DataSourceType"),
     product_type |-> EnumOf("ProductType"),
     disposition_type |-> EnumOf("DispositionType"),
     period_date |-> TDate,
     value |-> D15_4,
     unit |-> MaxLen(50),
     region |-> OptNone(MaxLen(100))]

EIADataPointCreate ==
    [series_id |-> MaxLen(100),
     data_source |-> EnumOf("DataSourceType"),
     product_type |-> EnumOf("ProductType"),
     disposition_type |-> EnumOf("DispositionType"),
     period_date |-> TDate,
     value |-> D15_2,
     unit |-> MaxLen(50),
     region |-> OptNone(MaxLen(100))]

ScenarioCreate ==
    [name |-> MaxLen(200),
     description |-> MaxLen(1000),
     scenario_type |-> EnumOf("ScenarioType"),
     severity_level |-> EnumOf("SeverityLevel"),
     start_date |-> TDate,
     end_date |-> TDate,
     hurricane_category |-> OptNone(Le(Ge(TInt, 1), 5)),
     affected_regions |-> Default(TList, JsonV("list")),
     production_impact_pct |-> Default(D5_2, DecZero),
     refining_capacity_impact_pct |-> Default(D5_2, DecZero),
     import_disruption_pct |-> Default(D5_2, DecZero),
     parameters |-> Default(TDict, JsonV("dict"))]

\* ScenarioUpdate with name declared Optional[str] without default=None.
ScenarioUpdate_NameNoDefault ==
    [name |-> Optional(MaxLen(200)),
     description |-> OptNone(MaxLen(1000)),
     severity_level |-> OptNone(EnumOf("SeverityLevel")),
     start_date |-> OptNone(TDate),
     end_date |-> OptNone(TDate),
     production_impact_pct |-> OptNone(D5_2),
     refining_capacity_impact_pct |-> OptNone(D5_2),
     import_disruption_pct |-> OptNone(D5_2),
     parameters |-> OptNone(TDict),
     is_active |-> OptNone(TBool)]

ScenarioUpdate ==
    [name |-> OptNone(MaxLen(200)),
     description |-> OptNone(MaxLen(1000)),
     severity_level |-> OptNone(EnumOf("SeverityLevel")),
     start_date |-> OptNone(TDate),
     end_date |-> OptNone(TDate),
     production_impact_pct |-> OptNone(D5_2),
     refining_capacity_impact_pct |-> OptNone(D5_2),
     import_disruption_pct |-> OptNone(D5_2),
     parameters |-> OptNone(TDict),
     is_active |-> OptNone(TBool)]

DashboardConfigCreate ==
    [config_name |-> MaxLen(100),
     dashboard_type |-> MaxLen(50),
     chart_configs |-> Default(TDict, JsonV("dict")),
     data_filters |-> Default(TDict, JsonV("dict")),
     refresh_interval_minutes |-> Default(Ge(TInt, 1), IntV(60)),
     default_date_range_days |-> Default(Ge(TInt, 1), IntV(365)),
     include_forecasts |-> Default(TBool, BoolV(TRUE)),
     include_scenarios |-> Default(TBool, BoolV(FALSE))]

SupplyDispositionSummary ==
    [product_type |-> EnumOf("ProductType"),
     period_date |-> TDate,
     total_supply |-> D15_2,
     total_disposition |-> D15_2,
     balance |-> D15_2,
     unit |-> TStr,
     region |-> OptNone(TStr)]

\* The classes declared table=True.
Tables ==
    {"EIADataPoint", "STEOData", "PSMData", "WeeklyData", "SupplyDisposition",
     "Scenario", "ScenarioImpact", "PriceData", "PriceForecast",
     "SeasonalPattern", "HurricaneHistorical", "DashboardConfig",
     "ReportTemplate", "DataAlert"}

\* The classes declared table=False.
Schemas ==
    {"EIADataPointCreate", "ScenarioCreate", "ScenarioUpdate",
     "DashboardConfigCreate", "SupplyDispositionSummary"}

Models == Tables \cup Schemas

IsTable(m) == m \in Tables

Fields(m) ==
    CASE m = "EIADataPoint" -> EIADataPoint
      [] m = "STEOData" -> STEOData
      [] m = "PSMData" -> PSMData
      [] m = "WeeklyData" -> WeeklyData
      [] m = "SupplyDisposition" -> SupplyDisposition
      [] m = "Scenario" -> Scenario
      [] m = "ScenarioImpact" -> ScenarioImpact
      [] m = "PriceData" -> PriceData
      [] m = "PriceForecast" -> PriceForecast
      [] m = "SeasonalPattern" -> SeasonalPattern
      [] m = "HurricaneHistorical" -> HurricaneHistorical
      [] m = "DashboardConfig" -> DashboardConfig
      [] m = "ReportTemplate" -> ReportTemplate
      [] m = "DataAlert" -> DataAlert
      [] m = "EIADataPointCreate" -> EIADataPointCreate
      [] m = "ScenarioCreate" -> ScenarioCreate
      [] m = "ScenarioUpdate" -> ScenarioUpdate
      [] m = "DashboardConfigCreate" -> DashboardConfigCreate
      [] m = "SupplyDispositionSummary" -> SupplyDispositionSummary

FieldNames(m) == DOMAIN Fields(m)

(***************************************************************************)
(* Validation of one value against one field declaration (pydantic's       *)
(* validators for the annotated type and the Field constraints).           *)
(***************************************************************************)
Max(a, b) == IF a >= b THEN a ELSE b

\* Digits and decimal places of a Decimal as the max_digits/decimal_places
\* validator counts them from as_tuple(): a non-negative exponent adds
\* trailing zeros to an integer; a negative one gives the decimal places, and
\* a value below 1 (0.001) has as many digits as decimal places.
DecimalDigits(v) ==
    IF v.exp >= 0 THEN Len(v.digits) + v.exp ELSE Max(Len(v.digits), -v.exp)

DecimalPlaces(v) == IF v.exp >= 0 THEN 0 ELSE -v.exp

DecimalValid(fs, v) ==
    /\ \A d \in fs.max_digits : DecimalDigits(v) <= d
    /\ \A p \in fs.decimal_places : DecimalPlaces(v) <= p
    /\ \A d \in fs.max_digits : \A p \in fs.decimal_places :
          DecimalDigits(v) - DecimalPlaces(v) <= d - p

IntValid(fs, v) ==
    /\ \A b \in fs.ge : v.i >= b
    /\ \A b \in fs.le : v.i <= b

StrValid(fs, v) == \A n \in fs.max_length : v.len <= n

EnumValid(fs, v) == v.text \in EnumValues(fs.enum)

FieldValid(fs, v) ==
    CASE v.k = "null" -> fs.optional
      [] v.k = "int" -> fs.ty = "int" /\ IntValid(fs, v)
      [] v.k = "str" ->
            \/ fs.ty = "str" /\ StrValid(fs, v)
            \/ fs.ty = "enum" /\ EnumValid(fs, v)
      [] v.k = "dec" -> fs.ty = "decimal" /\ DecimalValid(fs, v)
      [] v.k = "date" -> fs.ty = "date"
      [] v.k = "datetime" -> fs.ty = "datetime"
      [] v.k = "bool" -> fs.ty = "bool"
      [] v.k = "json" -> fs.ty = v.j

\* The value a field takes when the request does not give it.
DefaultOf(fs, t) == IF fs.default_factory THEN TimeV(t) ELSE fs.default

\* A request is the keyword arguments of a call: each field of the class
\* with the value given for it, or Missing when the call does not give it.
Missing == [k |-> "missing"]

Given(data, f) == data[f] # Missing

\* One field of a request: given and valid, or not given and not required.
FieldAccepted(m, f, data) ==
    IF Given(data, f)
    THEN FieldValid(Fields(m)[f], data[f])
    ELSE ~Fields(m)[f].required

FieldwiseValid(m, data) == \A f \in FieldNames(m) : FieldAccepted(m, f, data)

(***************************************************************************)
(* Constructing a record.  A result is [ok, rec]: whether the call         *)
(* returned (no ValidationError), and the record it returned.              *)
(***************************************************************************)
NoRecord == [k |-> "none"]

\* pydantic validation: table=False __init__, and model_validate.
Validated(m, data, t) ==
    IF FieldwiseValid(m, data)
    THEN [ok |-> TRUE,
          rec |-> [f \in FieldNames(m) |->
                     IF Given(data, f) THEN data[f]
                     ELSE DefaultOf(Fields(m)[f], t)]]
    ELSE [ok |-> FALSE, rec |-> NoRecord]

\* table=True __init__: nothing is raised.  A field not given takes its
\* default, or stays unset (None) when it has none.  A given value that does
\* not validate is set as given (keep) or left unset (not keep), depending on
\* the installed sqlmodel release.
TableConstructed(m, data, t, keep) ==
    [ok |-> TRUE,
     rec |-> [f \in FieldNames(m) |->
                IF Given(data, f)
                THEN IF keep \/ FieldValid(Fields(m)[f], data[f])
                     THEN data[f] ELSE Null
                ELSE IF Fields(m)[f].required THEN Null
                     ELSE DefaultOf(Fields(m)[f], t)]]

Constructed(m, data, t, keep) ==
    IF IsTable(m) THEN TableConstructed(m, data, t, keep)
    ELSE Validated(m, data, t)

(***************************************************************************)
(* The requests tried: keyword arguments for each class.  Sample(m) gives  *)
(* every field a caller sets a valid value; a request changes one field of *)
(* it to any probed value, or two fields to coarse values, or leaves any   *)
(* set of fields out.                                                      *)
(***************************************************************************)
Lit(text) == StrV(text, Len(text))

\* Strings that are no member value of the enum probed: the members of the
\* other enums, lowercase variants, and an unknown word.
OtherTexts == {"steo", "crude_oil", "production", "baseline", "low", "UNKNOWN"}

AllEnumTexts == UNION {EnumValues(e) : e \in EnumNames} \cup OtherTexts

Around(B) == UNION {(b - Margin)..(b + Margin) : b \in B}

Ones(n) == [i \in 1..n |-> 1]

\* A Decimal written with w digits before the point and q after it, none of
\* them a trailing zero.
DecWritten(w, q) == IF w + q = 0 THEN DecZero ELSE DecV(Ones(w + q), -q)

DecProbes(fs) ==
    LET whole == {d - p : d \in fs.max_digits, p \in fs.decimal_places}
        W == {w \in {0, 1} \cup Around(whole) : w >= 0}
        Q == {q \in {0} \cup Around(fs.decimal_places) : q >= 0}
    IN  {DecWritten(w, q) : w \in W, q \in Q}
          \cup {DecV(<<1>>, e) : e \in {x \in Around(whole) : x >= 0}}

Probes(fs) ==
    {Null, Missing} \cup
    CASE fs.ty = "int" ->
            IF fs.ge \cup fs.le = {} THEN {IntV(1)}
            ELSE {IntV(i) : i \in Around(fs.ge \cup fs.le)}
      [] fs.ty = "str" ->
            IF fs.max_length = {} THEN {StrV("x", 1)}
            ELSE {StrV("x", n) : n \in {x \in Around(fs.max_length) : x >= 0}}
      [] fs.ty = "enum" -> {Lit(t) : t \in AllEnumTexts}
      [] fs.ty = "decimal" -> DecProbes(fs)
      [] fs.ty = "date" -> {DateV(d) : d \in 0..2}
      [] fs.ty = "datetime" -> {TimeV(0)}
      [] fs.ty = "bool" -> {BoolV(b) : b \in BOOLEAN}
      [] fs.ty = "list" -> {JsonV("list")}
      [] fs.ty = "dict" -> {JsonV("dict")}

SampleValue(fs) ==
    CASE fs.ty = "int" ->
            IF fs.ge # {} THEN IntV(CHOOSE b \in fs.ge : TRUE) ELSE IntV(1)
      [] fs.ty = "str" -> StrV("x", 1)
      [] fs.ty = "enum" -> Lit(CHOOSE t \in EnumValues(fs.enum) : TRUE)
      [] fs.ty = "decimal" -> DecZero
      [] fs.ty = "date" -> DateV(1)
      [] fs.ty = "datetime" -> TimeV(0)
      [] fs.ty = "bool" -> BoolV(TRUE)
      [] fs.ty = "list" -> JsonV("list")
      [] fs.ty = "dict" -> JsonV("dict")

\* The fields a caller sets: all but the server-assigned ones (the primary
\* key and the timestamps with a default factory).
CallerFields(m) ==
    {f \in FieldNames(m) :
        ~Fields(m)[f].primary_key /\ ~Fields(m)[f].default_factory}

Sample(m) ==
    [f \in FieldNames(m) |->
        IF f \in CallerFields(m) THEN SampleValue(Fields(m)[f]) ELSE Missing]

Override(data, f, v) == [data EXCEPT ![f] = v]

\* Coarse values of a field: not given, None, one that validates and one
\* that does not (when the declaration rejects any).
Coarse(fs) ==
    LET good == {v \in Probes(fs) \ {Null, Missing} : FieldValid(fs, v)}
        bad == {v \in Probes(fs) \ {Null, Missing} : ~FieldValid(fs, v)}
    IN  {Null, Missing}
          \cup (IF good = {} THEN {} ELSE {CHOOSE v \in good : v # SampleValue(fs) \/ good = {v}})
          \cup (IF bad = {} THEN {} ELSE {CHOOSE v \in bad : TRUE})

RequestsFrom(m, s) ==
    {Override(s, p[1], p[2]) : p \in
        UNION {{f} \X Probes(Fields(m)[f]) : f \in FieldNames(m)}}
    \cup
    {Override(Override(s, p[1][1], p[1][2]), p[2][1], p[2][2]) : p \in
        LET C == UNION {{f} \X Coarse(Fields(m)[f]) : f \in FieldNames(m)}
        IN  {q \in C \X C : q[1][1] # q[2][1]}}
    \cup
    (IF IsTable(m) THEN {}
     ELSE {[f \in FieldNames(m) |-> IF f \in S THEN s[f] ELSE Missing] :
              S \in SUBSET FieldNames(m)})

Requests(m) == UNION {RequestsFrom(m, s) : s \in {Sample(m)}}

NoRequest == [m |-> "none"]

RequestsOf(ms) == UNION {{[m |-> m, data |-> d] : d \in Requests(m)} : m \in ms}

(***************************************************************************)
(* Constructing and validating: the request is drawn at the start, and the *)
(* one call made on it is recorded in last.                                *)
(***************************************************************************)
Nothing == [op |-> "none"]

NoRows == [m \in Tables |-> <<>>]

Init ==
    /\ request \in RequestsOf(Models)
    /\ last = Nothing
    /\ db = NoRows
    /\ now = 0

\* Model(**data)
Construct ==
    /\ request # NoRequest
    /\ last = Nothing
    /\ \E keep \in BOOLEAN :
         LET r == Constructed(request.m, request.data, now, keep)
         IN  last' = [op |-> "construct", m |-> request.m,
                      data |-> request.data, ok |-> r.ok, rec |-> r.rec]
    /\ UNCHANGED <<request, db, now>>

\* Model.model_validate(data)
ModelValidate ==
    /\ request # NoRequest
    /\ last = Nothing
    /\ LET r == Validated(request.m, request.data, now)
       IN  last' = [op |-> "validate", m |-> request.m,
                    data |-> request.data, ok |-> r.ok, rec |-> r.rec]
    /\ UNCHANGED <<request, db, now>>

Next == Construct \/ ModelValidate

Spec == Init /\ [][Next]_vars

(***************************************************************************)
(* The store: what a session keeps of the table records it is given.  The  *)
(* engine enforces what the columns declare: the primary key, NOT NULL for *)
(* a field that is not Optional, UNIQUE, and FOREIGN KEY.  It checks none  *)
(* of ge, le, max_digits or decimal_places: those are no column            *)
(* constraints.  A commit takes one tick of the clock.                     *)
(***************************************************************************)
\* nullable of the column: the field is Optional, or its column is given as
\* sa_column=Column(JSON), which is nullable.
Nullable(fs) == fs.optional \/ fs.sa_column

Rows(m) == {db[m][i] : i \in DOMAIN db[m]}

RowCount == LET n[S \in SUBSET Tables] ==
                  IF S = {} THEN 0
                  ELSE LET t == CHOOSE t \in S : TRUE
                       IN  Len(db[t]) + n[S \ {t}]
            IN  n[Tables]

\* The autoincremented primary key: one more than the rows of the table
\* (rows are never deleted).
NextId(m) == Len(db[m]) + 1

\* Whether the engine takes row as a row of m beside the rows others.
Storable(m, row, others) ==
    \A f \in FieldNames(m) :
       LET fs == Fields(m)[f]
       IN  /\ fs.primary_key => row[f] # Null /\ \A o \in others : o[f] # row[f]
           /\ ~fs.primary_key /\ ~Nullable(fs) => row[f] # Null
           /\ fs.unique => \A o \in others : o[f] # row[f]
           /\ fs.foreign_key # "" /\ row[f] # Null =>
                 \E o \in Rows(fs.foreign_key) : o.id = row[f]

\* The tables the store keeps here: those with a unique or a foreign key
\* column, those a foreign key names, and those with an updated_at.
StoredTables ==
    {m \in Tables :
        \/ \E f \in FieldNames(m) :
              Fields(m)[f].unique \/ Fields(m)[f].foreign_key # ""
        \/ \E o \in Tables : \E f \in FieldNames(o) : Fields(o)[f].foreign_key = m
        \/ "updated_at" \in FieldNames(m)}

\* Values given to a unique or foreign key field of a stored record.
KeyProbes(fs) ==
    IF fs.foreign_key # "" THEN {Missing, IntV(1), IntV(2)}
    ELSE IF fs.unique THEN {StrV("a", 1), StrV("b", 1)}
    ELSE {}

\* Values a writer assigns to a field of a stored row.
AssignProbes(fs) ==
    UNION {KeyProbes(fs) \ {Missing},
           IF fs.foreign_key # "" /\ fs.optional THEN {Null} ELSE {},
           IF fs.ty = "bool" THEN {BoolV(FALSE)} ELSE {},
           IF fs.ty = "decimal" /\ fs.required THEN {DecWritten(1, 0)} ELSE {}}

\* The records a caller saves: the sample, with its key fields varied.
KeyFields(m) == {f \in FieldNames(m) : KeyProbes(Fields(m)[f]) # {}}

StoreRequests(m) ==
    IF KeyFields(m) = {} THEN {Sample(m)}
    ELSE {Override(Sample(m), p[1], p[2]) : p \in
            UNION {{f} \X KeyProbes(Fields(m)[f]) : f \in KeyFields(m)}}

\* The request shape a table's create requests come in, if it has one.
CreateShapes == {"EIADataPointCreate", "ScenarioCreate", "DashboardConfigCreate"}

PersistentOf(m) ==
    CASE m = "EIADataPointCreate" -> "EIADataPoint"
      [] m = "ScenarioCreate" -> "Scenario"
      [] m = "DashboardConfigCreate" -> "DashboardConfig"

ShapeRequests(m) ==
    {[f \in FieldNames(m) |-> d[f]] : d \in StoreRequests(PersistentOf(m))}

\* The records saved and the requests received, per class.
Saved == [m \in StoredTables |-> StoreRequests(m)]

Received == [m \in CreateShapes |-> ShapeRequests(m)]

InitStore ==
    /\ request = NoRequest
    /\ last = Nothing
    /\ db = NoRows
    /\ now = 0

\* A request arrives in its create shape: Shape(**data).  Nothing is
\* committed.
Receive ==
    /\ \E m \in CreateShapes : \E d \in Received[m] :
         LET r == Constructed(m, d, now, TRUE)
         IN  last' = [op |-> "receive", m |-> m, data |-> d,
                      ok |-> r.ok, rec |-> r.rec, t |-> now]
    /\ UNCHANGED <<request, db, now>>

\* session.add(Table(**data)); session.commit()
Save ==
    /\ now < MaxTime
    /\ RowCount < MaxRows
    /\ \E m \in StoredTables : \E d \in Saved[m] : \E keep \in BOOLEAN :
         LET obj == TableConstructed(m, d, now, keep).rec
             row == IF obj.id = Null THEN [obj EXCEPT !.id = IntV(NextId(m))]
                    ELSE obj
             ok == Storable(m, row, Rows(m))
         IN  /\ db' = IF ok THEN [db EXCEPT ![m] = Append(@, row)] ELSE db
             /\ last' = [op |-> "save", m |-> m, data |-> d,
                         ok |-> ok, rec |-> row, t |-> now]
    /\ now' = now + 1
    /\ UNCHANGED request

\* row.f = v; session.commit(): the attribute assigned is the only column
\* of the UPDATE (no column declares an onupdate).
Assign ==
    /\ now < MaxTime
    /\ \E m \in StoredTables : \E i \in DOMAIN db[m] : \E f \in FieldNames(m) :
       \E v \in AssignProbes(Fields(m)[f]) :
         LET row == [db[m][i] EXCEPT ![f] = v]
             ok == Storable(m, row, Rows(m) \ {db[m][i]})
         IN  /\ db[m][i][f] # v
             /\ db' = IF ok THEN [db EXCEPT ![m][i] = row] ELSE db
             /\ last' = [op |-> "assign", m |-> m, data |-> <<f, v>>,
                         ok |-> ok, rec |-> row, t |-> now]
    /\ now' = now + 1
    /\ UNCHANGED request

NextStore == Receive \/ Save \/ Assign

SpecStore == InitStore /\ [][NextStore]_vars

(***************************************************************************)
(* Properties.                                                             *)
(***************************************************************************)
\* Every field of the request but f is accepted.
OthersAccepted(m, f, data) ==
    \A g \in FieldNames(m) \ {f} : FieldAccepted(m, g, data)

Absent(v) == v = Null \/ v = Missing

CategoryModels == {"Scenario", "ScenarioCreate", "HurricaneHistorical"}

CategoryField(m) ==
    IF m = "HurricaneHistorical" THEN "category" ELSE "hurricane_category"

\* C1: constructing a Scenario, a ScenarioCreate or a HurricaneHistorical with
\* an integer category outside 1..5 is rejected, with one in 1..5 it is
\* accepted, and a Scenario or ScenarioCreate without a category is accepted.
C1_CategoryRange ==
    last.op = "construct" /\ last.m \in CategoryModels =>
        LET f == CategoryField(last.m)
            c == last.data[f]
            rest == OthersAccepted(last.m, f, last.data)
        IN  /\ c.k = "int" /\ c.i \notin 1..5 => ~last.ok
            /\ c.k = "int" /\ c.i \in 1..5 /\ rest => last.ok
            /\ last.m # "HurricaneHistorical" /\ Absent(c) /\ rest => last.ok

\* C2: constructing a SeasonalPattern with a month outside 1..12 is rejected,
\* with one in 1..12 it is accepted, and no SeasonalPattern record has a
\* month outside 1..12.
C2_MonthRange ==
    last.op = "construct" /\ last.m = "SeasonalPattern" =>
        LET c == last.data["month"]
        IN  /\ c.k = "int" /\ c.i \notin 1..12 => ~last.ok
            /\ c.k = "int" /\ c.i \in 1..12
                 /\ OthersAccepted(last.m, "month", last.data) => last.ok
            /\ last.ok /\ last.rec["month"].k = "int" =>
                 last.rec["month"].i \in 1..12

\* C3: for every enum-typed field of every record type, table record or
\* request shape, construction accepts the member values of the field's enum
\* and rejects every other string.
C3_EnumLiterals ==
    /\ DataSourceType = {"STEO", "PSM", "WEEKLY"}
    /\ Cardinality(ProductType) = 7 /\ Cardinality(DispositionType) = 6
    /\ Cardinality(ScenarioType) = 5 /\ Cardinality(SeverityLevel) = 4
    /\ last.op = "construct" =>
         \A f \in FieldNames(last.m) :
            LET fs == Fields(last.m)[f]
                c == last.data[f]
            IN  fs.ty = "enum" /\ c.k = "str" =>
                  /\ c.text \notin EnumValues(fs.enum) => ~last.ok
                  /\ c.text \in EnumValues(fs.enum)
                       /\ OthersAccepted(last.m, f, last.data) => last.ok

\* C4: for every decimal field declared with max_digits d and decimal_places
\* s, construction rejects a value with more than s decimal places or more
\* than d digits, and accepts every value within both limits.
C4_DecimalPrecision ==
    last.op = "construct" =>
        \A f \in FieldNames(last.m) :
           LET fs == Fields(last.m)[f]
               c == last.data[f]
               within == /\ \A d \in fs.max_digits : DecimalDigits(c) <= d
                         /\ \A p \in fs.decimal_places : DecimalPlaces(c) <= p
           IN  fs.ty = "decimal" /\ c.k = "dec" =>
                 /\ ~within => ~last.ok
                 /\ within /\ OthersAccepted(last.m, f, last.data) => last.ok

\* C7: a ScenarioUpdate with no field set is accepted and all its fields are
\* then None; a ScenarioUpdate that sets any subset of its fields to valid
\* values is accepted: no field is required.
C7_AllOptional ==
    /\ last.op = "construct"
    /\ last.m = "ScenarioUpdate"
    /\ \A f \in FieldNames(last.m) :
          Given(last.data, f) => FieldValid(Fields(last.m)[f], last.data[f])
    => /\ last.ok
       /\ \A f \in FieldNames(last.m) :
             ~Given(last.data, f) => last.rec[f] = Null

\* The empty patch has been constructed and accepted.
C7_EmptyPatchAccepted ==
    /\ last.op = "construct"
    /\ last.m = "ScenarioUpdate"
    /\ \A f \in FieldNames(last.m) : ~Given(last.data, f)
    /\ last.ok

\* What a declaration says to validation: all but the column arguments.
Declared(fs) ==
    [ty |-> fs.ty, enum |-> fs.enum, optional |-> fs.optional,
     required |-> fs.required, default |-> fs.default,
     ge |-> fs.ge, le |-> fs.le, max_length |-> fs.max_length,
     max_digits |-> fs.max_digits, decimal_places |-> fs.decimal_places]

\* The fields of a create shape copied into keyword arguments of the table.
CopiedTo(p, m, values) ==
    [f \in FieldNames(p) |-> IF f \in FieldNames(m) THEN values[f] ELSE Missing]

\* C9: every field of a create shape is a field of its table with the same
\* type, default and constraints; a request the create shape accepts, copied
\* field by field, satisfies every field constraint of the table, and one it
\* rejects violates a field constraint of the table.
C9_Projection ==
    /\ \A m \in CreateShapes : \A f \in FieldNames(m) :
          /\ f \in FieldNames(PersistentOf(m))
          /\ Declared(Fields(m)[f]) = Declared(Fields(PersistentOf(m))[f])
    /\ last.op = "construct" /\ last.m \in CreateShapes =>
          LET p == PersistentOf(last.m)
          IN  /\ last.ok => FieldwiseValid(p, CopiedTo(p, last.m, last.rec))
              /\ ~last.ok => ~FieldwiseValid(p, CopiedTo(p, last.m, last.data))

\* A ScenarioCreate with the largest hurricane category has been accepted.
C9_CreateAccepted ==
    /\ last.op = "construct"
    /\ last.m = "ScenarioCreate"
    /\ last.data["hurricane_category"] = IntV(5)
    /\ last.ok

\* C10: a record is accepted exactly when each of its fields satisfies its
\* own constraint; no condition across fields is enforced.
C10_FieldwiseOnly ==
    last.op = "construct" => (last.ok <=> FieldwiseValid(last.m, last.data))

ConfigNames == {r.config_name : r \in Rows("DashboardConfig")}

\* A step that saves a DashboardConfig whose config_name is already stored.
SavesStoredName ==
    /\ last' # last
    /\ last'.op = "save"
    /\ last'.m = "DashboardConfig"
    /\ last'.rec.config_name \in ConfigNames

\* C5: no two stored DashboardConfig records have the same config_name; a
\* save whose config_name is already stored is rejected and leaves the store
\* unchanged; DashboardConfigCreate accepts a name that is already stored.
C5_UniqueConfigName ==
    /\ [](\A i, j \in DOMAIN db["DashboardConfig"] :
            i # j => db["DashboardConfig"][i].config_name
                       # db["DashboardConfig"][j].config_name)
    /\ [](last.op = "receive" /\ last.m = "DashboardConfigCreate"
            /\ FieldwiseValid(last.m, last.data) => last.ok)
    /\ [][SavesStoredName => ~last'.ok /\ db' = db]_vars

\* A DashboardConfig with a stored name has been saved again and rejected.
C5_DuplicateRejected ==
    /\ last.op = "save"
    /\ last.m = "DashboardConfig"
    /\ ~last.ok
    /\ last.rec.config_name \in ConfigNames

References(row, f, m) == \E o \in Rows(m) : o.id = row[f]

\* A save that gives no value for field f of table m.
SavedWithout(m, f) ==
    last.op = "save" /\ last.m = m /\ ~Given(last.data, f)

\* C6 as claimed: every stored ScenarioImpact and every stored PriceForecast
\* references an existing Scenario, and a ScenarioImpact or PriceForecast
\* created without a scenario_id is rejected.
C6_BothScenarioKeysRequired ==
    /\ \A r \in Rows("ScenarioImpact") : References(r, "scenario_id", "Scenario")
    /\ \A r \in Rows("PriceForecast") : References(r, "scenario_id", "Scenario")
    /\ SavedWithout("ScenarioImpact", "scenario_id") => ~last.ok
    /\ SavedWithout("PriceForecast", "scenario_id") => ~last.ok

\* C6 amended: only ScenarioImpact.scenario_id is non-nullable.  Every stored
\* ScenarioImpact references an existing Scenario and one saved without a
\* scenario_id is rejected; a PriceForecast saved without a scenario_id and a
\* SupplyDisposition saved without a data_point_id are stored, and a stored
\* one that has the key references an existing row.
C6_OnlyImpactKeyRequired ==
    /\ \A r \in Rows("ScenarioImpact") : References(r, "scenario_id", "Scenario")
    /\ SavedWithout("ScenarioImpact", "scenario_id") => ~last.ok
    /\ \A r \in Rows("PriceForecast") :
          r.scenario_id = Null \/ References(r, "scenario_id", "Scenario")
    /\ \A r \in Rows("SupplyDisposition") :
          r.data_point_id = Null \/ References(r, "data_point_id", "EIADataPoint")
    /\ SavedWithout("PriceForecast", "scenario_id") =>
          last.ok /\ last.rec \in Rows("PriceForecast")
    /\ SavedWithout("SupplyDisposition", "data_point_id") =>
          last.ok /\ last.rec \in Rows("SupplyDisposition")

\* A PriceForecast without scenario has been stored beside a ScenarioImpact.
C6_ForecastWithoutScenario ==
    /\ SavedWithout("PriceForecast", "scenario_id")
    /\ \E r \in Rows("PriceForecast") : r.scenario_id = Null
    /\ Rows("ScenarioImpact") # {}

MutableTables == {"EIADataPoint", "DashboardConfig"}

\* C8: for EIADataPoint and DashboardConfig, updated_at is never earlier than
\* created_at, and after a modification at time t updated_at equals t.
C8_UpdatedAtRefreshed ==
    /\ \A m \in MutableTables : \A r \in Rows(m) :
          r.updated_at.t >= r.created_at.t
    /\ last.op = "assign" /\ last.m \in MutableTables /\ last.ok =>
          last.rec.updated_at = TimeV(last.t)

=============================================================================
